---- MODULE Spec2Model ----
(***************************************************************************)
(* A model of nexplore's tree view: the TreeState of src/widgets/tree.rs   *)
(* (flattening, windowing, movement, expand/collapse, search), the path    *)
(* resolver of src/h5file.rs and the event loop of src/main.rs.            *)
(*                                                                         *)
(* Strings are sequences of one-character strings.  A Vec is a sequence;   *)
(* Rust's index i is the model's index i + 1, and paths (Vec<usize>) keep  *)
(* the Rust values (0-based).  An Option is either None or [some |-> v].   *)
(***************************************************************************)
EXTENDS Integers, Sequences, FiniteSets, TLC

(***************************************************************************)
(* Bounds of the model                                                     *)
(***************************************************************************)
\* the largest inner height of the tree area that a draw may see
MaxHeight == 3
\* the longest search buffer that is typed
MaxSearchLen == 2
\* the selection past which a direct caller of TreeState stops calling
MaxPosition == 5

\* usize arithmetic: the target's usize is 64 bits wide; the model keeps the
\* wrap-around and the saturation of the operations at a narrower width,
\* far above every in-range value of the model.
UsizeBits == 16
\* the largest index in a path handed to FileInfo::entity
MaxIndex == 3
\* the longest path handed to FileInfo::entity
MaxPathLen == 4
UsizeModulus == 2 ^ UsizeBits
UsizeMax == UsizeModulus - 1

None == [none |-> TRUE]
Some(v) == [some |-> v]
IsSome(o) == "some" \in DOMAIN o

Min(a, b) == IF a <= b THEN a ELSE b

\* usize::saturating_add
saturating_add(a, b) == IF a + b > UsizeMax THEN UsizeMax ELSE a + b
\* usize::saturating_sub
saturating_sub(a, b) == IF a < b THEN 0 ELSE a - b
\* a - b on usize.  With overflow checks (a debug build) a result below zero
\* panics; without them (a release build) it wraps.
Sub(a, b, checks) ==
    IF a >= b THEN [panic |-> FALSE, value |-> a - b]
    ELSE IF checks THEN [panic |-> TRUE, value |-> 0]
    ELSE [panic |-> FALSE, value |-> UsizeModulus - (b - a)]

RECURSIVE Reverse(_)
Reverse(s) == IF s = <<>> THEN <<>> ELSE Append(Reverse(Tail(s)), Head(s))

RECURSIVE Concat(_)
\* the concatenation of a sequence of sequences
Concat(ss) == IF ss = <<>> THEN <<>> ELSE Head(ss) \o Concat(Tail(ss))

(***************************************************************************)
(* Text (ratatui): Text::raw splits its content into lines                 *)
(***************************************************************************)
NL == "\n"

RECURSIVE StrLines(_)
\* str::lines: the pieces between line feeds; a final line feed ends the last
\* line and starts no new one.
StrLines(s) ==
    IF s = <<>> THEN <<>>
    ELSE LET nls == {i \in 1..Len(s) : s[i] = NL}
         IN  IF nls = {} THEN <<s>>
             ELSE LET i == CHOOSE j \in nls : \A k \in nls : j <= k
                  IN  <<SubSeq(s, 1, i - 1)>> \o StrLines(SubSeq(s, i + 1, Len(s)))

\* Text::raw: the empty content is one empty line
TextRaw(s) == IF s = <<>> THEN << <<>> >> ELSE StrLines(s)

\* Text::height
TextHeight(text) == Len(text)

(***************************************************************************)
(* h5file.rs: the entities of a file, and ui.rs: their tree items          *)
(***************************************************************************)
Group(name, id, entities) ==
    [kind |-> "Group", name |-> name, id |-> id, entities |-> entities]

Dataset(name, id) ==
    [kind |-> "Dataset", name |-> name, id |-> id]

GROUP_COLOR == "Blue"
DATASET_COLOR == "Green"

\* TreeItem::new
TreeItemNew(contents, color, children) ==
    [contents |-> contents, color |-> color, children |-> children,
     expanded |-> TRUE]

RECURSIVE TreeItemFrom(_)
\* From<EntityInfo> for TreeItem, through From<GroupInfo> and From<DatasetInfo>
TreeItemFrom(entity) ==
    IF entity.kind = "Group"
    THEN TreeItemNew(TextRaw(entity.name), GROUP_COLOR,
                     [i \in 1..Len(entity.entities) |->
                         TreeItemFrom(entity.entities[i])])
    ELSE TreeItemNew(TextRaw(entity.name), DATASET_COLOR, <<>>)

\* FileInfo::to_tree_items
to_tree_items(file_info) ==
    [i \in 1..Len(file_info.entities) |-> TreeItemFrom(file_info.entities[i])]

\* the unit value ()
Unit == [unit |-> TRUE]

Ok(v) == [ok |-> v]
Err(e) == [err |-> e]
IsOk(r) == "ok" \in DOMAIN r

RECURSIVE EntityWalkStopping(_, _)
\* EntityWalk that stops at a dataset and returns it, whatever indices remain
EntityWalkStopping(entity, indices) ==
    IF indices = <<>> THEN Ok(entity)
    ELSE IF entity.kind = "Group"
         THEN IF Head(indices) < Len(entity.entities)
              THEN EntityWalkStopping(entity.entities[Head(indices) + 1],
                                      Tail(indices))
              ELSE Err("Index was empty")
         ELSE Ok(entity)

RECURSIVE EntityWalk(_, _)
\* the for loop of FileInfo::entity: one child index per depth
EntityWalk(entity, indices) ==
    IF indices = <<>> THEN Ok(entity)
    ELSE IF entity.kind = "Group"
         THEN IF Head(indices) < Len(entity.entities)
              THEN EntityWalk(entity.entities[Head(indices) + 1], Tail(indices))
              ELSE Err("Index was empty")
         ELSE Err("Cannot index into a dataset")

\* FileInfo::entity
entity(file_info, index) ==
    IF index = <<>> THEN Err("Index was empty")
    ELSE IF Head(index) < Len(file_info.entities)
         THEN EntityWalk(file_info.entities[Head(index) + 1], Tail(index))
         ELSE Err("No entity at index")

(***************************************************************************)
(* regex: a pattern is text with groups.  Regex::new rejects a pattern     *)
(* whose parentheses do not balance; a compiled pattern matches a text     *)
(* that contains the pattern's literal characters consecutively (is_match  *)
(* is unanchored).                                                         *)
(***************************************************************************)
RECURSIVE ParenDepth(_, _)
\* the nesting depth after reading p from depth d; -1 once a group is closed
\* that was never opened
ParenDepth(p, d) ==
    IF p = <<>> THEN d
    ELSE IF Head(p) = "(" THEN ParenDepth(Tail(p), d + 1)
    ELSE IF Head(p) = ")"
         THEN IF d = 0 THEN -1 ELSE ParenDepth(Tail(p), d - 1)
    ELSE ParenDepth(Tail(p), d)

\* Regex::new(pattern).is_ok()
Compiles(pattern) == ParenDepth(pattern, 0) = 0

IsParen(c) == c \in {"(", ")"}

\* Regex::is_match
is_match(pattern, text) ==
    LET lit == SelectSeq(pattern, LAMBDA c : ~IsParen(c))
    IN  \E i \in 0..(Len(text) - Len(lit)) :
            SubSeq(text, i + 1, i + Len(lit)) = lit

(***************************************************************************)
(* widgets/tree.rs: TreeState                                              *)
(***************************************************************************)
\* TreeState::new
TreeStateNew(tree_items) ==
    [items |-> tree_items, position |-> 0, start |-> 0, end |-> 0,
     search |-> None]

\* the text a search is matched against: every span of every line, joined
ItemText(item) == Concat(item.contents)

\* ChildEntries with the child index counted from 1
ChildEntriesFromOne(entry) ==
    [i \in 1..Len(entry.item.children) |->
        [index |-> Append(entry.index, i),
         visible |-> entry.visible /\ entry.item.expanded,
         item |-> entry.item.children[i]]]

\* ChildEntries with a child's visibility taken from its parent's flag alone
ChildEntriesParentOnly(entry) ==
    [i \in 1..Len(entry.item.children) |->
        [index |-> Append(entry.index, i - 1),
         visible |-> entry.item.expanded,
         item |-> entry.item.children[i]]]

\* the children pushed for a popped entry, in declaration order
ChildEntries(entry) ==
    [i \in 1..Len(entry.item.children) |->
        [index |-> Append(entry.index, i - 1),
         visible |-> entry.visible /\ entry.item.expanded,
         item |-> entry.item.children[i]]]

RECURSIVE FlattenLoopFiltering(_, _, _)
\* FlattenLoop as a filter would have it: under an active search an entry that
\* does not match is not visible
FlattenLoopFiltering(search, to_flatten, entries) ==
    IF to_flatten = <<>> THEN entries
    ELSE LET top == to_flatten[Len(to_flatten)]
             rest == SubSeq(to_flatten, 1, Len(to_flatten) - 1)
             search_candidate ==
                 IF IsSome(search)
                 THEN is_match(search.some, ItemText(top.item))
                 ELSE FALSE
             computed ==
                 [item |-> top.item, index |-> top.index,
                  visible |-> top.visible /\ (IsSome(search) => search_candidate),
                  search_candidate |-> search_candidate]
         IN  FlattenLoopFiltering(search, rest \o Reverse(ChildEntries(top)),
                                  Append(entries, computed))

RECURSIVE FlattenLoopMatchingVisible(_, _, _)
\* FlattenLoop testing the pattern on visible entries only
FlattenLoopMatchingVisible(search, to_flatten, entries) ==
    IF to_flatten = <<>> THEN entries
    ELSE LET top == to_flatten[Len(to_flatten)]
             rest == SubSeq(to_flatten, 1, Len(to_flatten) - 1)
             search_candidate ==
                 IF IsSome(search) /\ top.visible
                 THEN is_match(search.some, ItemText(top.item))
                 ELSE FALSE
             computed ==
                 [item |-> top.item, index |-> top.index,
                  visible |-> top.visible,
                  search_candidate |-> search_candidate]
         IN  FlattenLoopMatchingVisible(search,
                                        rest \o Reverse(ChildEntries(top)),
                                        Append(entries, computed))

RECURSIVE FlattenLoop(_, _, _)
\* the while loop of TreeState::items: pop the last entry of to_flatten, push
\* its ComputedItem, extend to_flatten with its children reversed
FlattenLoop(search, to_flatten, entries) ==
    IF to_flatten = <<>> THEN entries
    ELSE LET top == to_flatten[Len(to_flatten)]
             rest == SubSeq(to_flatten, 1, Len(to_flatten) - 1)
             search_candidate ==
                 IF IsSome(search)
                 THEN is_match(search.some, ItemText(top.item))
                 ELSE FALSE
             computed ==
                 [item |-> top.item, index |-> top.index,
                  visible |-> top.visible,
                  search_candidate |-> search_candidate]
         IN  FlattenLoop(search, rest \o Reverse(ChildEntries(top)),
                         Append(entries, computed))

\* the initial to_flatten of TreeState::items: the top-level items, enumerated
TopEntries(tree_items) ==
    [i \in 1..Len(tree_items) |->
        [index |-> <<i - 1>>, visible |-> TRUE, item |-> tree_items[i]]]

\* TreeState::items
items(self) == FlattenLoop(self.search, TopEntries(self.items), <<>>)

\* self.items().iter().filter(|item| item.visible)
VisibleItems(self) == SelectSeq(items(self), LAMBDA c : c.visible)

\* TreeState::position
position(self) ==
    LET vis == VisibleItems(self)
    IN  IF self.position < Len(vis)
        THEN Some(vis[self.position + 1].index)
        ELSE None

\* what a &mut self method hands back: the state, or a panic (the state is
\* not used again after a panic)
Done(self) == [panic |-> FALSE, self |-> self]
Panic(self) == [panic |-> TRUE, self |-> self]

\* move_down without the clamp to the last visible row
move_down_unclamped(self, checks) ==
    Done([self EXCEPT !.position = saturating_add(self.position, 1)])

\* TreeState::move_down
move_down(self, checks) ==
    LET last == Sub(Len(VisibleItems(self)), 1, checks)
    IN  IF last.panic THEN Panic(self)
        ELSE Done([self EXCEPT
                 !.position = Min(saturating_add(self.position, 1), last.value)])

\* TreeState::move_up
move_up(self) ==
    Done([self EXCEPT !.position = saturating_sub(self.position, 1)])

\* self.end - self.start - 1
PageStep(self, checks) ==
    LET span == Sub(self.end, self.start, checks)
    IN  IF span.panic THEN span ELSE Sub(span.value, 1, checks)

\* page_down by the whole of the window, end - start rows
page_down_by_window(self, checks) ==
    LET step == Sub(self.end, self.start, checks)
        last == Sub(Len(VisibleItems(self)), 1, checks)
    IN  IF step.panic \/ last.panic THEN Panic(self)
        ELSE Done([self EXCEPT
                 !.position = Min(saturating_add(self.position, step.value),
                                  last.value)])

\* TreeState::page_down
page_down(self, checks) ==
    LET step == PageStep(self, checks)
        last == Sub(Len(VisibleItems(self)), 1, checks)
    IN  IF step.panic \/ last.panic THEN Panic(self)
        ELSE Done([self EXCEPT
                 !.position = Min(saturating_add(self.position, step.value),
                                  last.value)])

\* TreeState::page_up
page_up(self, checks) ==
    LET step == PageStep(self, checks)
    IN  IF step.panic THEN Panic(self)
        ELSE Done([self EXCEPT
                 !.position = saturating_sub(self.position, step.value)])

RECURSIVE GetMut(_, _)
\* the walk of selected_mut: get_mut at every depth; TRUE when it reaches an item
GetMut(tree_items, indices) ==
    IF indices = <<>> THEN FALSE
    ELSE IF Head(indices) >= Len(tree_items) THEN FALSE
    ELSE IF Tail(indices) = <<>> THEN TRUE
    ELSE GetMut(tree_items[Head(indices) + 1].children, Tail(indices))

\* TreeState::selected_mut: the place of the selected item in self.items (the
\* path that leads to it), or None
selected_mut(self) ==
    LET index == position(self)
    IN  IF IsSome(index) /\ GetMut(self.items, index.some)
        THEN Some(index.some)
        ELSE None

RECURSIVE ItemAt(_, _)
\* the item a place (as selected_mut returns it) refers to
ItemAt(tree_items, place) ==
    IF Tail(place) = <<>> THEN tree_items[Head(place) + 1]
    ELSE ItemAt(tree_items[Head(place) + 1].children, Tail(place))

RECURSIVE SetExpandedAlongPath(_, _, _)
\* SetExpanded assigning the flag of every item the walk passes through as well
SetExpandedAlongPath(tree_items, place, value) ==
    LET item == tree_items[Head(place) + 1]
    IN  [tree_items EXCEPT ![Head(place) + 1] =
            IF Tail(place) = <<>> THEN [item EXCEPT !.expanded = value]
            ELSE [item EXCEPT
                     !.expanded = value,
                     !.children = SetExpandedAlongPath(item.children,
                                                       Tail(place), value)]]

RECURSIVE SetExpanded(_, _, _)
\* the assignment selected.expanded = value through the reference
SetExpanded(tree_items, place, value) ==
    LET item == tree_items[Head(place) + 1]
    IN  [tree_items EXCEPT ![Head(place) + 1] =
            IF Tail(place) = <<>> THEN [item EXCEPT !.expanded = value]
            ELSE [item EXCEPT
                     !.children = SetExpanded(item.children, Tail(place), value)]]

RECURSIVE ExpandForest(_)
\* a forest with every expanded flag set
ExpandForest(tree_items) ==
    [i \in 1..Len(tree_items) |->
        [tree_items[i] EXCEPT
            !.expanded = TRUE,
            !.children = ExpandForest(tree_items[i].children)]]

RECURSIVE SetExpandedRecursively(_, _)
\* the flag of the item at a place set together with every flag below it
SetExpandedRecursively(tree_items, place) ==
    LET item == tree_items[Head(place) + 1]
    IN  [tree_items EXCEPT ![Head(place) + 1] =
            IF Tail(place) = <<>>
            THEN [item EXCEPT !.expanded = TRUE,
                              !.children = ExpandForest(item.children)]
            ELSE [item EXCEPT
                     !.children = SetExpandedRecursively(item.children,
                                                         Tail(place))]]

\* expand opening the selected item and everything below it
expand_recursively(self) ==
    LET selected == selected_mut(self)
    IN  IF IsSome(selected)
        THEN Done([self EXCEPT
                 !.items = SetExpandedRecursively(self.items, selected.some)])
        ELSE Done(self)

\* TreeState::expand
expand(self) ==
    LET selected == selected_mut(self)
    IN  IF IsSome(selected)
        THEN Done([self EXCEPT
                 !.items = SetExpanded(self.items, selected.some, TRUE)])
        ELSE Done(self)

\* collapse acting on the group that encloses the selected item, when there is
\* one, instead of on the selected item
collapse_enclosing(self) ==
    LET selected == selected_mut(self)
    IN  IF IsSome(selected)
        THEN Done([self EXCEPT
                 !.items = SetExpanded(self.items,
                               IF Len(selected.some) > 1
                               THEN SubSeq(selected.some, 1, Len(selected.some) - 1)
                               ELSE selected.some,
                               FALSE)])
        ELSE Done(self)

\* TreeState::collapse
collapse(self) ==
    LET selected == selected_mut(self)
    IN  IF IsSome(selected)
        THEN Done([self EXCEPT
                 !.items = SetExpanded(self.items, selected.some, FALSE)])
        ELSE Done(self)

\* search with the old pattern dropped before the new one is compiled
search_clearing_first(self, pattern) ==
    IF IsSome(pattern)
    THEN IF Compiles(pattern.some)
         THEN [result |-> Ok(Unit),
               self |-> [self EXCEPT !.search = Some(pattern.some)]]
         ELSE [result |-> Err("regex::Error"),
               self |-> [self EXCEPT !.search = None]]
    ELSE [result |-> Ok(Unit), self |-> [self EXCEPT !.search = None]]

\* TreeState::search: the state after the call and the Result it returns
search(self, pattern) ==
    IF IsSome(pattern)
    THEN IF Compiles(pattern.some)
         THEN [result |-> Ok(Unit),
               self |-> [self EXCEPT !.search = Some(pattern.some)]]
         ELSE [result |-> Err("regex::Error"), self |-> self]
    ELSE [result |-> Ok(Unit), self |-> [self EXCEPT !.search = None]]

RECURSIVE Scan(_, _)
\* scan(0, |acc, item| acc += height): the running sums of heights from acc
Scan(hs, acc) ==
    IF hs = <<>> THEN <<>>
    ELSE <<acc + Head(hs)>> \o Scan(Tail(hs), acc + Head(hs))

\* the heights vector of update_bounds: heights[i] is the summed height of the
\* visible rows 0..=i
Heights(self) ==
    LET vis == VisibleItems(self)
    IN  Scan([i \in 1..Len(vis) |-> TextHeight(vis[i].item.contents)], 0)

\* heights.iter().enumerate().find_map(|(idx, &height)|
\*     (bound <= height).then_some(idx)).unwrap_or(heights.len())
FindEnd(heights, bound) ==
    LET hits == {idx \in 0..(Len(heights) - 1) : bound <= heights[idx + 1]}
    IN  IF hits = {} THEN Len(heights)
        ELSE CHOOSE idx \in hits : \A other \in hits : idx <= other

\* FindStart with then_some(idx): the window keeps the last row that no longer
\* fits above the selection
FindStartInclusive(heights, max_height, bound) ==
    LET hits == {idx \in 0..(Len(heights) - 1) :
                    heights[idx + 1] + max_height <= bound}
    IN  IF hits = {} THEN 0
        ELSE CHOOSE idx \in hits : \A other \in hits : idx >= other

\* heights.iter().enumerate().rev().find_map(|(idx, height)|
\*     (height + max_height <= bound).then_some(idx + 1)).unwrap_or(0)
FindStart(heights, max_height, bound) ==
    LET hits == {idx \in 0..(Len(heights) - 1) :
                    heights[idx + 1] + max_height <= bound}
    IN  IF hits = {} THEN 0
        ELSE (CHOOSE idx \in hits : \A other \in hits : idx >= other) + 1

\* update_bounds without the branch for a selection above the window
update_bounds_no_scroll_up(self, max_height) ==
    LET heights == Heights(self)
        len == Len(heights)
    IN  IF self.start >= len \/ self.position >= len THEN Panic(self)
        ELSE IF heights[self.start + 1] + max_height <= heights[self.position + 1]
        THEN Done([self EXCEPT
                 !.end = self.position + 1,
                 !.start = FindStart(heights, max_height,
                                     heights[self.position + 1])])
        ELSE Done([self EXCEPT
                 !.end = FindEnd(heights, heights[self.start + 1] + max_height)])

\* TreeState::update_bounds.  heights[i] with i out of range panics.
update_bounds(self, max_height) ==
    LET heights == Heights(self)
        len == Len(heights)
    IN  IF self.position < self.start
        THEN \* heights[self.start] is read inside the closure, once per element
             IF len > 0 /\ self.position >= len THEN Panic(self)
             ELSE Done([self EXCEPT
                      !.start = self.position,
                      !.end = IF len = 0 THEN 0
                              ELSE FindEnd(heights,
                                       heights[self.position + 1] + max_height)])
        ELSE IF self.start >= len \/ self.position >= len THEN Panic(self)
        ELSE IF heights[self.start + 1] + max_height <= heights[self.position + 1]
        THEN Done([self EXCEPT
                 !.end = self.position + 1,
                 !.start = FindStart(heights, max_height,
                                     heights[self.position + 1])])
        ELSE Done([self EXCEPT
                 !.end = FindEnd(heights, heights[self.start + 1] + max_height)])

\* the style of a row that draws the selection with the colour in front, as
\* any other row, under a search or not
RowStyleSelectedAlways(self, item_idx, computed) ==
    IF item_idx = self.position
    THEN [fg |-> None, bg |-> Some(computed.item.color),
          modifiers |-> {"BOLD"}]
    ELSE IF computed.search_candidate
    THEN [fg |-> Some(computed.item.color), bg |-> None,
          modifiers |-> {"BOLD", "UNDERLINED"}]
    ELSE [fg |-> Some(computed.item.color), bg |-> None, modifiers |-> {}]

\* the style Tree::render gives the row item_idx of the visible rows
RowStyle(self, item_idx, computed) ==
    IF item_idx = self.position /\ ~IsSome(self.search)
    THEN [fg |-> None, bg |-> Some(computed.item.color),
          modifiers |-> {"BOLD"}]
    ELSE IF computed.search_candidate
    THEN [fg |-> Some(computed.item.color), bg |-> None,
          modifiers |-> {"BOLD", "UNDERLINED"}]
    ELSE [fg |-> Some(computed.item.color), bg |-> None, modifiers |-> {}]

\* the rows Tree::render draws after update_bounds: the visible rows
\* enumerated, .take(end).skip(start), each with its style
render(self) ==
    LET visible == VisibleItems(self)
        last == Min(self.end, Len(visible))
    IN  [row \in 1..(IF last > self.start THEN last - self.start ELSE 0) |->
            LET item_idx == self.start + row - 1
            IN  [item_idx |-> item_idx,
                 index |-> visible[item_idx + 1].index,
                 search_candidate |-> visible[item_idx + 1].search_candidate,
                 style |-> RowStyle(self, item_idx, visible[item_idx + 1])]]

RECURSIVE SetAllExpanded(_, _)
\* every item of the forest with its expanded flag set to value; an item
\* without children is never collapsed, its flag is left as it is
SetAllExpanded(tree_items, value) ==
    [i \in 1..Len(tree_items) |->
        [tree_items[i] EXCEPT
            !.expanded = IF tree_items[i].children = <<>> /\ ~value
                         THEN @ ELSE value,
            !.children = SetAllExpanded(tree_items[i].children, value)]]

\* TreeState::expand_all (called by main.rs; not in widgets/tree.rs)
expand_all(self) ==
    Done([self EXCEPT !.items = SetAllExpanded(self.items, TRUE)])

\* TreeState::collapse_all (called by main.rs; not in widgets/tree.rs): the
\* selection is clamped to the rows that remain
collapse_all(self) ==
    LET collapsed == [self EXCEPT !.items = SetAllExpanded(self.items, FALSE)]
    IN  Done([collapsed EXCEPT
             !.position = Min(self.position,
                              saturating_sub(Len(VisibleItems(collapsed)), 1))])

(***************************************************************************)
(* The files the model opens                                               *)
(***************************************************************************)
\* an empty file
FileEmpty == [entities |-> <<>>]

\* A{B, C{D}}
FileABCD ==
    [entities |->
        << Group(<<"A">>, 1,
               << Dataset(<<"B">>, 2),
                  Group(<<"C">>, 3, << Dataset(<<"D">>, 4) >>) >>) >>]

\* three top-level entities, one of them an empty group, and a repeated name
FileTops ==
    [entities |->
        << Group(<<"P">>, 1, << Dataset(<<"Q">>, 2) >>),
           Group(<<"B">>, 3, <<>>),
           Dataset(<<"Q">>, 4) >>]

\* names that span two lines
FileLines ==
    [entities |->
        << Group(<<"M", NL, "N">>, 1,
               << Dataset(<<"O">>, 2),
                  Dataset(<<"K", NL, "L">>, 3),
                  Dataset(<<"J">>, 4) >>) >>]

\* a name that spans three lines
FileTall ==
    [entities |->
        << Dataset(<<"W">>, 1),
           Dataset(<<"X", NL, "Y", NL, "Z">>, 2) >>]

Files == <<FileEmpty, FileABCD, FileTops, FileLines, FileTall>>

\* the characters a key press may carry in search entry: a literal, and one
\* that leaves the pattern with an unclosed group
KeyChars == {"B", "("}

(***************************************************************************)
(* The state                                                               *)
(***************************************************************************)
VARIABLES
    file_info,        \* run's file_info: the entities read from the file
    state,            \* contents_tree.state: the TreeState
    mode,             \* run's mode: Normal, or Search with its buffer
    entity_info,      \* run's entity_info: the entity resolved for the detail pane
    max_height,       \* the inner height of the tree area at run's last draw
    returned,         \* what the last direct call of a TreeState method returned
    pc                \* "draw", "poll", "done", "failed", "panicked"; "api"

vars == <<file_info, state, mode, entity_info, max_height, returned, pc>>

\* Mode::Normal and Mode::Search { search }
ModeNormal == [kind |-> "Normal"]
ModeSearch(buffer) == [kind |-> "Search", search |-> buffer]

\* the part of Init that run and a direct user of TreeState share: a file is
\* read and its tree is built (ContentsTree::new(file_info.to_tree_items()))
Opened ==
    /\ file_info \in {Files[i] : i \in 1..Len(Files)}
    /\ state = TreeStateNew(to_tree_items(file_info))
    /\ mode = ModeNormal
    /\ entity_info = None
    /\ max_height = 0
    /\ returned = None

\* whether the build panics on integer overflow (a debug build) or wraps (a
\* release build): either is an outcome of an overflowing operation
OverflowChecks == BOOLEAN

(***************************************************************************)
(* main.rs: run, the event loop                                            *)
(***************************************************************************)
Init == Opened /\ pc = "draw"

\* the head of the loop: resolve the selected entity, then draw the frame;
\* Tree::render calls update_bounds with the inner height of its area
Draw ==
    /\ pc = "draw"
    /\ \E height \in 0..MaxHeight :
        LET index == position(state)
            found == entity(file_info, index.some)
            bounds == update_bounds(state, height)
        IN  IF ~IsSome(index)
            THEN pc' = "panicked"
                 /\ UNCHANGED <<state, entity_info, max_height>>
            ELSE IF ~IsOk(found)
            THEN pc' = "failed"
                 /\ UNCHANGED <<state, entity_info, max_height>>
            ELSE IF bounds.panic
            THEN pc' = "panicked"
                 /\ entity_info' = Some(found.ok)
                 /\ UNCHANGED <<state, max_height>>
            ELSE pc' = "poll"
                 /\ entity_info' = Some(found.ok)
                 /\ state' = bounds.self
                 /\ max_height' = height
    /\ UNCHANGED <<file_info, mode, returned>>

\* a key arm that calls one method of contents_tree.state
Handle(outcome) ==
    /\ IF outcome.panic
       THEN pc' = "panicked" /\ UNCHANGED state
       ELSE pc' = "draw" /\ state' = outcome.self
    /\ UNCHANGED <<file_info, entity_info, max_height, returned>>

Polling(kind) == pc = "poll" /\ mode.kind = kind

\* the break arm matching Esc or q in whatever mode
KeyQuitAnyMode ==
    /\ pc = "poll"
    /\ pc' = "done"
    /\ UNCHANGED <<file_info, state, mode, entity_info, max_height, returned>>

\* Esc or q in Normal: break
KeyQuit ==
    /\ Polling("Normal")
    /\ pc' = "done"
    /\ UNCHANGED <<file_info, state, mode, entity_info, max_height, returned>>

KeyUp == Polling("Normal") /\ Handle(move_up(state)) /\ UNCHANGED mode

KeyDown ==
    /\ Polling("Normal")
    /\ \E checks \in OverflowChecks : Handle(move_down(state, checks))
    /\ UNCHANGED mode

KeyPageUp ==
    /\ Polling("Normal")
    /\ \E checks \in OverflowChecks : Handle(page_up(state, checks))
    /\ UNCHANGED mode

KeyPageDown ==
    /\ Polling("Normal")
    /\ \E checks \in OverflowChecks : Handle(page_down(state, checks))
    /\ UNCHANGED mode

KeyCollapse == Polling("Normal") /\ Handle(collapse(state)) /\ UNCHANGED mode

KeyExpand == Polling("Normal") /\ Handle(expand(state)) /\ UNCHANGED mode

KeyCollapseAll ==
    Polling("Normal") /\ Handle(collapse_all(state)) /\ UNCHANGED mode

KeyExpandAll ==
    Polling("Normal") /\ Handle(expand_all(state)) /\ UNCHANGED mode

\* a search arm: the Result of TreeState::search is dropped
HandleSearch(pattern) ==
    /\ state' = search(state, pattern).self
    /\ pc' = "draw"
    /\ UNCHANGED <<file_info, entity_info, max_height, returned>>

\* '/' in Normal
KeySlash ==
    /\ Polling("Normal")
    /\ mode' = ModeSearch(<<>>)
    /\ HandleSearch(Some(<<>>))

\* Esc in Search leaving the mode without the call of TreeState::search(None)
KeySearchEscKeepingSearch ==
    /\ Polling("Search")
    /\ mode' = ModeNormal
    /\ pc' = "draw"
    /\ UNCHANGED <<file_info, state, entity_info, max_height, returned>>

\* Esc in Search
KeySearchEsc ==
    /\ Polling("Search")
    /\ mode' = ModeNormal
    /\ HandleSearch(None)

\* a character in Search: search.push(char), then TreeState::search
KeySearchChar ==
    /\ Polling("Search")
    /\ Len(mode.search) < MaxSearchLen
    /\ \E char \in KeyChars :
        LET buffer == Append(mode.search, char)
        IN  mode' = ModeSearch(buffer) /\ HandleSearch(Some(buffer))

\* Backspace in Search: search.pop(), then TreeState::search
KeySearchBackspace ==
    /\ Polling("Search")
    /\ LET buffer == IF mode.search = <<>> THEN <<>>
                     ELSE SubSeq(mode.search, 1, Len(mode.search) - 1)
       IN  mode' = ModeSearch(buffer) /\ HandleSearch(Some(buffer))

\* any other key, another event, or the poll timing out: nothing changes
KeyIgnored ==
    /\ pc = "poll"
    /\ pc' = "draw"
    /\ UNCHANGED <<file_info, state, mode, entity_info, max_height, returned>>

Next ==
    \/ Draw
    \/ KeyQuit
    \/ KeyUp
    \/ KeyDown
    \/ KeyPageUp
    \/ KeyPageDown
    \/ KeyCollapse
    \/ KeyExpand
    \/ KeyCollapseAll
    \/ KeyExpandAll
    \/ KeySlash
    \/ KeySearchEsc
    \/ KeySearchChar
    \/ KeySearchBackspace
    \/ KeyIgnored

Spec == Init /\ [][Next]_vars

(***************************************************************************)
(* TreeState used directly: its methods called in any order                *)
(***************************************************************************)
ApiInit == Opened /\ pc = "api"

\* a caller stops once the selection has run past MaxPosition (on an empty
\* tree a wrapped count lets move_down count up without end)
Calling == pc = "api" /\ state.position <= MaxPosition

\* a call of a method that returns nothing
Call(outcome) ==
    /\ Calling
    /\ IF outcome.panic
       THEN pc' = "panicked" /\ UNCHANGED <<state, returned>>
       ELSE pc' = "api" /\ state' = outcome.self /\ returned' = Some(Unit)
    /\ UNCHANGED <<file_info, mode, entity_info, max_height>>

CallMoveUp == Call(move_up(state))

CallMoveDown == \E checks \in OverflowChecks : Call(move_down(state, checks))

CallPageUp == \E checks \in OverflowChecks : Call(page_up(state, checks))

CallPageDown == \E checks \in OverflowChecks : Call(page_down(state, checks))

CallExpand == Call(expand(state))

CallCollapse == Call(collapse(state))

CallUpdateBounds ==
    /\ Calling
    /\ \E height \in 0..MaxHeight :
        LET outcome == update_bounds(state, height)
        IN  IF outcome.panic
            THEN pc' = "panicked" /\ UNCHANGED <<state, returned>>
            ELSE pc' = "api" /\ state' = outcome.self /\ returned' = Some(Unit)
    /\ UNCHANGED <<file_info, mode, entity_info, max_height>>

\* the patterns a caller passes to TreeState::search: none, and texts that
\* compile (empty, a literal, groups) and that do not
PatternTexts ==
    { <<>>, <<"B">>, <<"K", "L">>, <<"(", ")">>, <<"(", "B", ")">>,
      <<"(">>, <<")">>, <<"B", "(">>, <<")", "(">> }

Patterns == {None} \cup {Some(text) : text \in PatternTexts}

\* one call of TreeState::search
CallSearchWith(pattern) ==
    /\ Calling
    /\ LET outcome == search(state, pattern)
       IN  state' = outcome.self /\ returned' = Some(outcome.result)
    /\ UNCHANGED <<file_info, mode, entity_info, max_height, pc>>

CallSearch == \E pattern \in Patterns : CallSearchWith(pattern)

ApiNext ==
    \/ CallMoveUp
    \/ CallMoveDown
    \/ CallPageUp
    \/ CallPageDown
    \/ CallExpand
    \/ CallCollapse
    \/ CallUpdateBounds
    \/ CallSearch

ApiSpec == ApiInit /\ [][ApiNext]_vars

(***************************************************************************)
(* Properties                                                              *)
(***************************************************************************)
\* the paths of a sequence of computed items, in order
Indices(computed) == [i \in 1..Len(computed) |-> computed[i].index]

\* the rows a file's tree shows
RowCount == Len(VisibleItems(state))

RECURSIVE PreOrder(_, _)
\* the depth-first pre-order walk of a forest below the path prefix: siblings
\* by ascending child index, each node followed by its subtree when expanded
PreOrder(tree_items, prefix) ==
    Concat([i \in 1..Len(tree_items) |->
        <<Append(prefix, i - 1)>>
        \o (IF tree_items[i].expanded
            THEN PreOrder(tree_items[i].children, Append(prefix, i - 1))
            ELSE <<>>)])

\* C1: the visible rows of TreeState::items are the depth-first pre-order walk
\* of the tree with the siblings of every depth, the top level included, in
\* declaration order, each parent followed by its visible subtree.
C1_VisibleRowsArePreOrder ==
    Indices(VisibleItems(state)) = PreOrder(state.items, <<>>)

\* the summed height of the rows first..last-1 of the visible rows
RowsHeight(first, last) ==
    LET heights == Heights(state)
    IN  (IF last = 0 THEN 0 ELSE heights[last])
        - (IF first = 0 THEN 0 ELSE heights[first])

\* C2: after every update_bounds of the event loop with a display height of at
\* least 1, start <= selection_row < end and end <= the number of visible rows.
C2_WindowHoldsSelection ==
    (pc = "poll" /\ max_height >= 1) =>
        /\ state.start <= state.position
        /\ state.position < state.end
        /\ state.end <= RowCount

\* a drawn window that has scrolled down, the selection on its last row
C2_Witness ==
    /\ pc = "poll"
    /\ max_height = 2
    /\ state.start = 2
    /\ state.position = 3
    /\ state.end = 4

\* C3: after update_bounds with a display height of at least 1 the heights of
\* the rows of [start, end) sum to at most the display height, unless the
\* window is a single row that is higher than the display.
C3_WindowFitsDisplay ==
    (pc = "poll" /\ max_height >= 1) =>
        \/ RowsHeight(state.start, state.end) <= max_height
        \/ /\ state.end = state.start + 1
           /\ RowsHeight(state.start, state.end) > max_height

\* C4: on a non-empty tree the selection stays within the visible rows, so
\* TreeState::position returns a path, whatever keys the event loop has handled.
C4_SelectionInRange ==
    (file_info.entities # <<>>) =>
        /\ 0 <= state.position
        /\ state.position <= RowCount - 1
        /\ IsSome(position(state))

\* the selection on the last visible row, below the first, while a subtree is
\* collapsed and a search is active
C4_Witness ==
    /\ file_info.entities # <<>>
    /\ state.position > 0
    /\ state.position = RowCount - 1
    /\ RowCount < Len(items(state))
    /\ IsSome(state.search)

\* a call of one of move_up, move_down, page_up, page_down, expand, collapse
CallMovement ==
    \/ CallMoveUp
    \/ CallMoveDown
    \/ CallPageUp
    \/ CallPageDown
    \/ CallExpand
    \/ CallCollapse

\* C5: on an empty tree the flattened sequence is empty, and move_up,
\* move_down, page_up, page_down, expand and collapse each complete without
\* failure and leave selection_row, start, end, the expand flags and the
\* search unchanged.
C5_EmptyTreeNoOps ==
    [][(file_info.entities = <<>> /\ CallMovement) =>
          /\ items(state) = <<>>
          /\ pc' = "api"
          /\ state' = state]_vars

\* C6: on a non-empty tree no call of move_up, move_down, page_up, page_down,
\* expand, collapse or update_bounds fails, in any order of calls on a fresh
\* TreeState and for any display height from 0.
C6_NoCallFails ==
    (file_info.entities # <<>>) => pc # "panicked"

\* the fields of a TreeState other than search
OtherFields(self) == <<self.items, self.position, self.start, self.end>>

\* C7: search(Some(pattern)) with a pattern that does not compile returns an
\* error and leaves the active search and every other field unchanged; with a
\* pattern that compiles it returns Ok and the search becomes that pattern;
\* search(None) returns Ok and clears the search.
C7_SearchResult ==
    [][\A pattern \in Patterns :
          CallSearchWith(pattern) =>
              IF IsSome(pattern) /\ ~Compiles(pattern.some)
              THEN returned' = Some(Err("regex::Error")) /\ state' = state
              ELSE /\ returned' = Some(Ok(Unit))
                   /\ state'.search = pattern
                   /\ OtherFields(state') = OtherFields(state)]_vars

\* a rejected pattern has left a compiled pattern active
C7_Witness ==
    /\ pc = "api"
    /\ returned = Some(Err("regex::Error"))
    /\ state.search = Some(<<"B">>)

\* C8: in search entry the buffer of the mode is the text of the active search
\* pattern: an edit that does not compile is rolled back.
C8_BufferIsActiveSearch ==
    (mode.kind = "Search") => state.search = Some(mode.search)

\* a key of search entry
SearchKey == KeySlash \/ KeySearchEsc \/ KeySearchChar \/ KeySearchBackspace

\* C9: the visible rows are the same rows, with the same paths in the same
\* order, under every compiled pattern and under no search, and setting,
\* editing or clearing the search changes no expanded flag and not the
\* selection.
C9_SearchIsHighlightOnly ==
    /\ [](\A pattern \in {p \in Patterns : IsSome(p) => Compiles(p.some)} :
              Indices(VisibleItems([state EXCEPT !.search = pattern]))
                  = Indices(VisibleItems(state)))
    /\ [][SearchKey =>
              /\ state'.items = state.items
              /\ state'.position = state.position
              /\ Indices(VisibleItems(state')) = Indices(VisibleItems(state))]_vars

\* a search that matches a row, typed while a subtree is collapsed and the
\* selection is below the first row
C9_Witness ==
    /\ mode.kind = "Search"
    /\ state.search = Some(<<"B">>)
    /\ \E i \in 1..Len(items(state)) : items(state)[i].search_candidate
    /\ RowCount < Len(items(state))
    /\ state.position > 0

\* an item with every expanded flag below and at it set, as TreeItem::new left it
Unexpanded(item) == SetAllExpanded(<<item>>, TRUE)[1]

\* C10: the path of every row resolves through FileInfo::entity to the entity
\* its tree item was built from and, for the selected row, through
\* selected_mut to that tree item; the paths do not depend on the expand
\* state, the search or the selection.
C10_PathRoundTrip ==
    LET computed == items(state)
        visible == VisibleItems(state)
    IN  /\ \A i \in 1..Len(computed) :
            LET found == entity(file_info, computed[i].index)
            IN  /\ IsOk(found)
                /\ TreeItemFrom(found.ok) = Unexpanded(computed[i].item)
                /\ ItemAt(state.items, computed[i].index) = computed[i].item
        /\ {computed[i].index : i \in 1..Len(computed)}
               = {c.index : c \in {items(TreeStateNew(to_tree_items(file_info)))[i] :
                                      i \in 1..Len(computed)}}
        /\ state.position < Len(visible) =>
            /\ position(state) = Some(visible[state.position + 1].index)
            /\ IsSome(selected_mut(state))
            /\ ItemAt(state.items, selected_mut(state).some)
                   = visible[state.position + 1].item
        /\ pc = "poll" =>
            TreeItemFrom(entity_info.some)
                = Unexpanded(visible[state.position + 1].item)

\* the detail pane shows D of A{B, C{D}}, selected at depth 3 under a search
C10_Witness ==
    /\ pc = "poll"
    /\ position(state) = Some(<<0, 1, 0>>)
    /\ entity_info.some.name = <<"D">>
    /\ IsSome(state.search)

RECURSIVE AncestorsExpanded(_, _)
\* whether every proper ancestor of the node at a path is expanded
AncestorsExpanded(tree_items, index) ==
    \/ Len(index) <= 1
    \/ /\ tree_items[Head(index) + 1].expanded
       /\ AncestorsExpanded(tree_items[Head(index) + 1].children, Tail(index))

\* C11: a node is among the visible rows exactly when every ancestor of it is
\* expanded, whatever its own flag; the rows of a tree with a single, collapsed
\* root are that root alone.
C11_VisibleIffAncestorsExpanded ==
    LET computed == items(state)
        rows == Indices(VisibleItems(state))
    IN  /\ \A i \in 1..Len(computed) :
            /\ computed[i].visible
                   <=> AncestorsExpanded(state.items, computed[i].index)
            /\ computed[i].visible
                   <=> (\E row \in 1..Len(rows) : rows[row] = computed[i].index)
        /\ (Len(state.items) = 1 /\ ~state.items[1].expanded) => Len(rows) = 1

\* the root of A{B, C{D}} collapsed over an expanded C: one row of four nodes
C11_Witness ==
    /\ file_info = FileABCD
    /\ ~state.items[1].expanded
    /\ state.items[1].children[2].expanded
    /\ RowCount = 1
    /\ Len(items(state)) = 4

\* the TreeState of A{B, C{D}} with every node expanded and no search
Scenario(selection_row, start, end) ==
    [TreeStateNew(to_tree_items(FileABCD)) EXCEPT
        !.position = selection_row, !.start = start, !.end = end]

\* a draw that renders the tree at a display height
DrawAt(height) == Draw /\ pc' = "poll" /\ max_height' = height

\* the labels of the rows first..last-1 of the visible rows
RowLabels(self, first, last) ==
    [row \in 1..(last - first) |->
        ItemText(VisibleItems(self)[first + row].item)]

\* the label of the selected row
SelectedLabel(self) == RowLabels(self, self.position, self.position + 1)[1]

\* C12: on A{B, C{D}}, every node expanded, drawn at a display height of 2 after
\* every event and with the selection first on A: the first draw shows [A, B];
\* move_down twice, drawn after each, leaves the selection on C; page_down then
\* leaves it on D, and the draw that follows shows exactly the rows [C, D].
C12_Scenario ==
    [][file_info = FileABCD =>
          /\ (state = Scenario(0, 0, 0) /\ DrawAt(2)) =>
                 /\ state' = Scenario(0, 0, 2)
                 /\ SelectedLabel(state') = <<"A">>
          /\ (state = Scenario(0, 0, 2) /\ KeyDown) =>
                 state' = Scenario(1, 0, 2) /\ pc' = "draw"
          /\ (state = Scenario(1, 0, 2) /\ DrawAt(2)) =>
                 state' = Scenario(1, 0, 2)
          /\ (state = Scenario(1, 0, 2) /\ KeyDown) =>
                 /\ state' = Scenario(2, 0, 2)
                 /\ pc' = "draw"
                 /\ SelectedLabel(state') = <<"C">>
          /\ (state = Scenario(2, 0, 2) /\ DrawAt(2)) =>
                 state' = Scenario(2, 1, 3)
          /\ (state = Scenario(2, 1, 3) /\ KeyPageDown) =>
                 /\ state' = Scenario(3, 1, 3)
                 /\ pc' = "draw"
                 /\ SelectedLabel(state') = <<"D">>
          /\ (state = Scenario(3, 1, 3) /\ DrawAt(2)) =>
                 /\ state' = Scenario(3, 2, 4)
                 /\ RowLabels(state', state'.start, state'.end)
                        = << <<"C">>, <<"D">> >>]_vars

\* the end of the scenario: D selected, the window [C, D] drawn at height 2
C12_Witness ==
    /\ file_info = FileABCD
    /\ pc = "poll"
    /\ max_height = 2
    /\ state = Scenario(3, 2, 4)
    /\ SelectedLabel(state) = <<"D">>
    /\ RowLabels(state, state.start, state.end) = << <<"C">>, <<"D">> >>

\* the head of the next iteration of the loop completes on a TreeState: the
\* selected path is found, resolves to an entity, and update_bounds returns
NextDrawCompletes(self) ==
    /\ IsSome(position(self))
    /\ IsOk(entity(file_info, position(self).some))
    /\ \A height \in 0..MaxHeight : ~update_bounds(self, height).panic

\* D of A{B, C{D}} is the selected row
OnD == file_info = FileABCD /\ position(state) = Some(<<0, 1, 0>>)

Terminated(at) == at \in {"done", "failed", "panicked"}

\* C14: in search entry no key changes the selection or an expanded flag and
\* no step ends the loop; the loop ends only from Normal, by break only on Esc
\* or q in Normal; Esc in search entry leads to Normal with the search cleared
\* and the loop going on.
C14_NavigationInNormalOnly ==
    /\ [][(mode.kind = "Search") =>
              /\ state'.position = state.position
              /\ state'.items = state.items
              /\ ~Terminated(pc')]_vars
    /\ [][(~Terminated(pc) /\ Terminated(pc')) =>
              /\ mode.kind = "Normal"
              /\ pc' = "done" => KeyQuit]_vars
    /\ [][KeySearchEsc =>
              /\ mode.kind = "Search"
              /\ mode' = ModeNormal
              /\ state'.search = None
              /\ pc' = "draw"]_vars

\* a key has been handled in search entry while the selection is below the
\* first row and a group is collapsed
C14_Witness ==
    /\ mode.kind = "Search"
    /\ mode.search # <<>>
    /\ pc = "draw"
    /\ state.position > 0
    /\ RowCount < Len(items(state))

RECURSIVE Addressable(_, _)
\* every entity below the path prefix, with the path that addresses it
Addressable(entities, prefix) ==
    UNION {
        {[path |-> Append(prefix, i - 1), entity |-> entities[i]]}
        \cup (IF entities[i].kind = "Group"
              THEN Addressable(entities[i].entities, Append(prefix, i - 1))
              ELSE {})
        : i \in 1..Len(entities) }

\* the paths FileInfo::entity is tried with
Paths == UNION {[1..n -> 0..MaxIndex] : n \in 0..MaxPathLen}

\* FileInfo::entity on a path returns Ok with the entity the path addresses,
\* and an error when the path addresses none
EntityResolves(path) ==
    LET found == entity(file_info, path)
        hits == {a \in Addressable(file_info.entities, <<>>) : a.path = path}
    IN  IF hits = {}
        THEN "err" \in DOMAIN found /\ ~IsOk(found)
        ELSE \A a \in hits : found = Ok(a.entity)

\* C15: FileInfo::entity returns Ok with the addressed entity for every path
\* that addresses an entity of the file and an error for every other path: the
\* empty path, an index out of range at any depth, a path that goes on below a
\* dataset.  The file never changes, so the paths are tried on it before the
\* first lookup of the loop; the lookup of every draw is checked as well.
C15_EntityOrError ==
    /\ entity_info = None => \A path \in Paths : EntityResolves(path)
    /\ pc = "poll" =>
        /\ EntityResolves(position(state).some)
        /\ entity(file_info, position(state).some) = Ok(entity_info.some)

\* the loop has resolved D of A{B, C{D}}; the empty path, an index out of range
\* at depth 2 and a path below the dataset D are errors
C15_Witness ==
    /\ file_info = FileABCD
    /\ pc = "poll"
    /\ entity_info = Some(Dataset(<<"D">>, 4))
    /\ entity(file_info, <<>>) = Err("Index was empty")
    /\ entity(file_info, <<1>>) = Err("No entity at index")
    /\ entity(file_info, <<0, 2>>) = Err("Index was empty")
    /\ entity(file_info, <<0, 1, 0, 0>>) = Err("Cannot index into a dataset")

\* the rows from first up to and including the selected row fit a display
SelectionFits(first, height) ==
    first <= state.position /\ RowsHeight(first, state.position + 1) <= height

\* C16: a draw moves the window no more than it must: when the selection is at
\* or below the previous start and still fits in a window of the display height
\* from there, start stays; when the selection is above the previous start,
\* start becomes the selected row; when the selection is at or below the
\* previous start and does not fit, end becomes the selected row plus one.
C16_ScrollMinimality ==
    [][(Draw /\ pc' = "poll") =>
          /\ SelectionFits(state.start, max_height') =>
                 state'.start = state.start
          /\ state.position < state.start =>
                 state'.start = state.position
          /\ (state.start <= state.position
                  /\ ~SelectionFits(state.start, max_height')) =>
                 state'.end = state.position + 1]_vars

Max(a, b) == IF a >= b THEN a ELSE b

\* a key has moved the selection by rows (forward when positive), clamped to
\* the first and the last visible row, and the loop goes on
MovedBy(rows) ==
    /\ pc' = "draw"
    /\ state'.position = Max(0, Min(state.position + rows, RowCount - 1))

\* the window of the last draw holds at least one row
WindowDrawn == state.end > state.start

C18_LeavesStayExpanded ==
    \A i \in 1..Len(items(state)) :
        items(state)[i].item.children = <<>> => items(state)[i].item.expanded

\* the paths of all nodes of a TreeState, visible or not
NodePaths(self) ==
    LET computed == items(self)
    IN  {computed[i].index : i \in 1..Len(computed)}

\* a node apart from its expanded flag and from what is below its children
NodeFrame(item) == <<item.contents, item.color, Len(item.children)>>

\* C19: expand and collapse set the expanded flag of the node at the path of
\* the selected row and change nothing else: no other node's flag, no label,
\* no children, not selection_row, start, end or the search.
C19_OnlySelectedFlagChanges ==
    [][(KeyCollapse \/ KeyExpand) =>
          LET selected == position(state).some
          IN  /\ pc' = "draw"
              /\ state'.position = state.position
              /\ state'.start = state.start
              /\ state'.end = state.end
              /\ state'.search = state.search
              /\ NodePaths(state') = NodePaths(state)
              /\ \A path \in NodePaths(state) :
                    /\ NodeFrame(ItemAt(state'.items, path))
                           = NodeFrame(ItemAt(state.items, path))
                    /\ path # selected =>
                           ItemAt(state'.items, path).expanded
                               = ItemAt(state.items, path).expanded
              /\ KeyCollapse => ~ItemAt(state'.items, selected).expanded
              /\ KeyExpand => ItemAt(state'.items, selected).expanded]_vars

\* collapse has run on C of A{B, C{D}}, selected at depth 2 under an active
\* search and a window that does not start at row 0
C19_Witness ==
    /\ file_info = FileABCD
    /\ pc = "draw"
    /\ position(state) = Some(<<0, 1>>)
    /\ ~ItemAt(state.items, <<0, 1>>).expanded
    /\ ItemAt(state.items, <<0>>).expanded
    /\ state.start > 0
    /\ IsSome(state.search)

\* the text of the label of the node at a path: the name of its entity, the
\* line breaks between its lines left out
LabelText(path) ==
    SelectSeq(entity(file_info, path).ok.name, LAMBDA c : c # NL)

\* the paths of the nodes whose search-match flag is set
Flagged(self) ==
    LET computed == items(self)
    IN  {computed[i].index :
            i \in {j \in 1..Len(computed) : computed[j].search_candidate}}

\* C20: with no search no node is flagged as a match; with a search a node is
\* flagged exactly when the pattern matches the text of its own label, be it
\* visible or hidden, expanded or collapsed, selected or not; on A{B, C{D}}
\* with the pattern B the flagged node is B alone.
C20_MatchFlagIsOwnLabel ==
    /\ ~IsSome(state.search) => Flagged(state) = {}
    /\ IsSome(state.search) =>
           Flagged(state) = {path \in NodePaths(state) :
                                is_match(state.search.some, LabelText(path))}
    /\ (file_info = FileABCD /\ state.search = Some(<<"B">>)) =>
           Flagged(state) = { <<0, 0>> }

\* the pattern B is active on A{B, C{D}} while A is collapsed and selected: B
\* is flagged although it is hidden
C20_Witness ==
    /\ file_info = FileABCD
    /\ state.search = Some(<<"B">>)
    /\ ~ItemAt(state.items, <<0>>).expanded
    /\ Indices(VisibleItems(state)) = << <<0>> >>
    /\ Flagged(state) = { <<0, 0>> }

\* the three visual states of a drawn row
IsSelectedStyle(style) == IsSome(style.bg)
IsMatchStyle(style) == ~IsSome(style.bg) /\ "UNDERLINED" \in style.modifiers
IsNormalStyle(style) == ~IsSome(style.bg) /\ style.modifiers = {}

\* the rows of the last frame that were drawn with a kind of style
DrawnWith(IsKind(_)) ==
    LET frame == render(state)
    IN  {frame[row].item_idx :
            row \in {r \in 1..Len(frame) : IsKind(frame[r].style)}}

\* what both statements of C21 share: under a search no drawn row has the
\* selected style, and every drawn row, the selected one included, has the
\* match style when the pattern matches its label and the normal style
\* otherwise; without a search no drawn row has the match style
StylesExclusive ==
    LET frame == render(state)
    IN  /\ IsSome(state.search) =>
            /\ DrawnWith(IsSelectedStyle) = {}
            /\ \A row \in 1..Len(frame) :
                  IF is_match(state.search.some, LabelText(frame[row].index))
                  THEN IsMatchStyle(frame[row].style)
                  ELSE IsNormalStyle(frame[row].style)
        /\ ~IsSome(state.search) => DrawnWith(IsMatchStyle) = {}

\* C21 as stated: after every draw, under a search no drawn row has the
\* selected style (the selected row has the match style if it matches and the
\* normal style otherwise); without a search exactly one drawn row, the one at
\* selection_row, has the selected style and no row has the match style.
C21_StylesExclusive ==
    pc = "poll" =>
        /\ StylesExclusive
        /\ ~IsSome(state.search) => DrawnWith(IsSelectedStyle) = {state.position}

\* C21: as above, where without a search the row at selection_row has the
\* selected style, and no other row has, in every frame drawn at a display
\* height of at least 1; at a display height of 0 the window is empty and no
\* row is drawn.
C21_StylesExclusiveWhenDrawn ==
    pc = "poll" =>
        /\ StylesExclusive
        /\ ~IsSome(state.search) =>
               /\ DrawnWith(IsSelectedStyle) \subseteq {state.position}
               /\ max_height >= 1 => DrawnWith(IsSelectedStyle) = {state.position}
               /\ max_height = 0 => render(state) = <<>>

\* a frame of A{B, C{D}} under the pattern B with B selected: B is drawn with
\* the match style, A with the normal style, no row with the selected style
C21_Witness ==
    /\ file_info = FileABCD
    /\ pc = "poll"
    /\ state.search = Some(<<"B">>)
    /\ position(state) = Some(<<0, 0>>)
    /\ DrawnWith(IsMatchStyle) = {1}
    /\ DrawnWith(IsNormalStyle) = {0}
    /\ DrawnWith(IsSelectedStyle) = {}

\* C22: in every state of the event loop the search of the TreeState is Some
\* exactly when the mode is Search and None exactly when the mode is Normal,
\* whatever keys were handled, edits that did not compile included.
C22_ModeAndSearchCoupled ==
    /\ IsSome(state.search) <=> mode.kind = "Search"
    /\ state.search = None <=> mode.kind = "Normal"

\* search entry after an edit that did not compile: the buffer has gone on to
\* "B(" while the active search is still the pattern B
C22_Witness ==
    /\ mode = ModeSearch(<<"B", "(">>)
    /\ state.search = Some(<<"B">>)

\* a TreeState after a collapse, as expand finds it: at once, or after the
\* draw that the loop puts between two keys, at any display height
BeforeExpand(collapsed) ==
    {collapsed}
    \cup {update_bounds(collapsed, height).self :
             height \in {h \in 0..MaxHeight : ~update_bounds(collapsed, h).panic}}

\* C23: collapse and then expand on the same selected node, expanded before
\* and with no movement in between, is a round trip: the visible rows, the
\* expanded flag of every node, hidden descendants included, and selection_row
\* are what they were before the collapse.
C23_CollapseExpandRoundTrip ==
    [][(/\ KeyCollapse
        /\ IsSome(position(state))
        /\ ItemAt(state.items, position(state).some).expanded) =>
          /\ position(state') = position(state)
          /\ ~ItemAt(state'.items, position(state).some).expanded
          /\ \A collapsed \in BeforeExpand(state') :
                LET back == expand(collapsed)
                IN  /\ ~back.panic
                    /\ back.self.items = state.items
                    /\ back.self.position = state.position
                    /\ Indices(VisibleItems(back.self))
                           = Indices(VisibleItems(state))]_vars

\* collapse has run on the selected root of A{B, C{D}} over an expanded C and
\* a D whose own flag is cleared: flags that the expand must leave alone
C23_Witness ==
    /\ file_info = FileABCD
    /\ pc = "draw"
    /\ position(state) = Some(<<0>>)
    /\ ~ItemAt(state.items, <<0>>).expanded
    /\ ItemAt(state.items, <<0, 1>>).expanded
    /\ ~ItemAt(state.items, <<0, 1, 0>>).expanded

====
